---------------------------- MODULE Spec2Model ----------------------------
(***************************************************************************)
(* A model of the Go static search tree (src/go/main.go): a prefix index   *)
(* built once from a word list and then queried; and, in its last part,    *)
(* of the memory of the Zig port (src/unnamed/part_001).                   *)
(*                                                                         *)
(* A Go string is modelled as the sequence of its bytes (naturals below    *)
(* 256), because build slices words by byte (word[:i]) and compares        *)
(* strings by byte, while strings.ToLower works rune by rune on the UTF-8  *)
(* decoding of those bytes.                                                *)
(***************************************************************************)
EXTENDS Integers, Sequences, FiniteSets, TLC

(***************************************************************************)
(* Bounds of the model.                                                    *)
(***************************************************************************)
\* The longest word list handed to NewStaticSearchTree.
MaxWords == 3

\* The words a list is drawn from, as UTF-8 bytes:
\*   ""  "A"  "a"  "aB"  "ab"  "b"  "µ" (U+00B5 = C2 B5)
\* (together at most five keys, so that every order of a range over the
\* keys is tried).
Vocabulary ==
    { <<>>, <<65>>, <<97>>, <<97, 66>>, <<97, 98>>, <<98>>, <<194, 181>> }

\* The query strings a caller passes:
\*   ""  "a"  "A"  "ab"  "AB"  "b"  "c"  "µ"  "Μ" (U+039C = CE 9C)
\*   "\xc2" (the lead byte of "µ" alone)  U+FFFD (EF BF BD)
Queries ==
    { <<>>, <<97>>, <<65>>, <<97, 98>>, <<65, 66>>, <<98>>, <<99>>,
      <<194, 181>>, <<206, 156>>, <<194>>, <<239, 191, 189>> }

\* The limits a caller passes to SearchWithLimit.
MaxLimit == 3

(***************************************************************************)
(* Strings: UTF-8, case mapping, prefix test, ordering.                    *)
(***************************************************************************)
\* utf8.RuneError, the rune that stands for an invalid byte.
RuneError == 65533

\* The number of bytes utf8.DecodeRuneInString consumes at s[i]; an invalid
\* or truncated encoding consumes one byte.
RuneWidth(s, i) ==
    LET n  == Len(s)
        b0 == s[i]
        Cont(j) == j <= n /\ s[j] >= 128 /\ s[j] <= 191
    IN  IF b0 < 128 THEN 1
        ELSE IF b0 >= 194 /\ b0 <= 223
            THEN IF Cont(i + 1) THEN 2 ELSE 1
        ELSE IF b0 >= 224 /\ b0 <= 239
            THEN IF /\ Cont(i + 1) /\ Cont(i + 2)
                    /\ (b0 = 224 => s[i + 1] >= 160)
                    /\ (b0 = 237 => s[i + 1] <= 159)
                 THEN 3 ELSE 1
        ELSE IF b0 >= 240 /\ b0 <= 244
            THEN IF /\ Cont(i + 1) /\ Cont(i + 2) /\ Cont(i + 3)
                    /\ (b0 = 240 => s[i + 1] >= 144)
                    /\ (b0 = 244 => s[i + 1] <= 143)
                 THEN 4 ELSE 1
        ELSE 1

\* The rune utf8.DecodeRuneInString reads at s[i].
RuneAt(s, i) ==
    LET w  == RuneWidth(s, i)
        b0 == s[i]
    IN  IF b0 < 128 THEN b0
        ELSE IF w = 2 THEN (b0 % 32) * 64 + (s[i + 1] % 64)
        ELSE IF w = 3
            THEN (b0 % 16) * 4096 + (s[i + 1] % 64) * 64 + (s[i + 2] % 64)
        ELSE IF w = 4
            THEN (b0 % 8) * 262144 + (s[i + 1] % 64) * 4096
                 + (s[i + 2] % 64) * 64 + (s[i + 3] % 64)
        ELSE RuneError

\* utf8.EncodeRune, as strings.Builder.WriteRune writes a rune.
EncodeRune(r) ==
    IF r < 128 THEN <<r>>
    ELSE IF r < 2048 THEN <<192 + (r \div 64), 128 + (r % 64)>>
    ELSE IF r >= 55296 /\ r <= 57343 THEN <<239, 191, 189>>
    ELSE IF r < 65536
        THEN <<224 + (r \div 4096), 128 + ((r \div 64) % 64), 128 + (r % 64)>>
    ELSE <<240 + (r \div 262144), 128 + ((r \div 4096) % 64),
           128 + ((r \div 64) % 64), 128 + (r % 64)>>

\* unicode.MaxRune, the largest code point.
MaxRune == 1114111

\* unicode.UpperLower: the delta of a range in which upper-case and
\* lower-case runes alternate, starting with an upper-case one.
UpperLower == MaxRune + 1

\* The indices of CaseRange.Delta: unicode.UpperCase and unicode.LowerCase.
UpperCase == 0
LowerCase == 1

\* unicode.CaseRanges above ASCII, each range as
\* <<Lo, Hi, Delta[UpperCase], Delta[LowerCase]>>, in ascending order (the
\* simple case mappings of Unicode 15.0; the title-case delta, which neither
\* ToLower nor ToUpper reads, is left out).
CaseRanges ==
    <<
      <<181, 181, 743, 0>>, <<192, 214, 0, 32>>, <<216, 222, 0, 32>>,
      <<224, 246, -32, 0>>, <<248, 254, -32, 0>>, <<255, 255, 121, 0>>,
      <<256, 303, UpperLower, UpperLower>>, <<304, 304, 0, -199>>,
      <<305, 305, -232, 0>>, <<306, 311, UpperLower, UpperLower>>,
      <<313, 328, UpperLower, UpperLower>>,
      <<330, 375, UpperLower, UpperLower>>, <<376, 376, 0, -121>>,
      <<377, 382, UpperLower, UpperLower>>, <<383, 383, -300, 0>>,
      <<384, 384, 195, 0>>, <<385, 385, 0, 210>>,
      <<386, 389, UpperLower, UpperLower>>, <<390, 390, 0, 206>>,
      <<391, 392, UpperLower, UpperLower>>, <<393, 394, 0, 205>>,
      <<395, 396, UpperLower, UpperLower>>, <<398, 398, 0, 79>>,
      <<399, 399, 0, 202>>, <<400, 400, 0, 203>>,
      <<401, 402, UpperLower, UpperLower>>, <<403, 403, 0, 205>>,
      <<404, 404, 0, 207>>, <<405, 405, 97, 0>>, <<406, 406, 0, 211>>,
      <<407, 407, 0, 209>>, <<408, 409, UpperLower, UpperLower>>,
      <<410, 410, 163, 0>>, <<412, 412, 0, 211>>, <<413, 413, 0, 213>>,
      <<414, 414, 130, 0>>, <<415, 415, 0, 214>>,
      <<416, 421, UpperLower, UpperLower>>, <<422, 422, 0, 218>>,
      <<423, 424, UpperLower, UpperLower>>, <<425, 425, 0, 218>>,
      <<428, 429, UpperLower, UpperLower>>, <<430, 430, 0, 218>>,
      <<431, 432, UpperLower, UpperLower>>, <<433, 434, 0, 217>>,
      <<435, 438, UpperLower, UpperLower>>, <<439, 439, 0, 219>>,
      <<440, 441, UpperLower, UpperLower>>,
      <<444, 445, UpperLower, UpperLower>>, <<447, 447, 56, 0>>,
      <<452, 452, 0, 2>>, <<453, 453, -1, 1>>, <<454, 454, -2, 0>>,
      <<455, 455, 0, 2>>, <<456, 456, -1, 1>>, <<457, 457, -2, 0>>,
      <<458, 458, 0, 2>>, <<459, 459, -1, 1>>, <<460, 460, -2, 0>>,
      <<461, 476, UpperLower, UpperLower>>, <<477, 477, -79, 0>>,
      <<478, 495, UpperLower, UpperLower>>, <<497, 497, 0, 2>>,
      <<498, 498, -1, 1>>, <<499, 499, -2, 0>>,
      <<500, 501, UpperLower, UpperLower>>, <<502, 502, 0, -97>>,
      <<503, 503, 0, -56>>, <<504, 543, UpperLower, UpperLower>>,
      <<544, 544, 0, -130>>, <<546, 563, UpperLower, UpperLower>>,
      <<570, 570, 0, 10795>>, <<571, 572, UpperLower, UpperLower>>,
      <<573, 573, 0, -163>>, <<574, 574, 0, 10792>>, <<575, 576, 10815, 0>>,
      <<577, 578, UpperLower, UpperLower>>, <<579, 579, 0, -195>>,
      <<580, 580, 0, 69>>, <<581, 581, 0, 71>>,
      <<582, 591, UpperLower, UpperLower>>, <<592, 592, 10783, 0>>,
      <<593, 593, 10780, 0>>, <<594, 594, 10782, 0>>, <<595, 595, -210, 0>>,
      <<596, 596, -206, 0>>, <<598, 599, -205, 0>>, <<601, 601, -202, 0>>,
      <<603, 603, -203, 0>>, <<604, 604, 42319, 0>>, <<608, 608, -205, 0>>,
      <<609, 609, 42315, 0>>, <<611, 611, -207, 0>>, <<613, 613, 42280, 0>>,
      <<614, 614, 42308, 0>>, <<616, 616, -209, 0>>, <<617, 617, -211, 0>>,
      <<618, 618, 42308, 0>>, <<619, 619, 10743, 0>>, <<620, 620, 42305, 0>>,
      <<623, 623, -211, 0>>, <<625, 625, 10749, 0>>, <<626, 626, -213, 0>>,
      <<629, 629, -214, 0>>, <<637, 637, 10727, 0>>, <<640, 640, -218, 0>>,
      <<642, 642, 42307, 0>>, <<643, 643, -218, 0>>, <<647, 647, 42282, 0>>,
      <<648, 648, -218, 0>>, <<649, 649, -69, 0>>, <<650, 651, -217, 0>>,
      <<652, 652, -71, 0>>, <<658, 658, -219, 0>>, <<669, 669, 42261, 0>>,
      <<670, 670, 42258, 0>>, <<837, 837, 84, 0>>,
      <<880, 883, UpperLower, UpperLower>>,
      <<886, 887, UpperLower, UpperLower>>, <<891, 893, 130, 0>>,
      <<895, 895, 0, 116>>, <<902, 902, 0, 38>>, <<904, 906, 0, 37>>,
      <<908, 908, 0, 64>>, <<910, 911, 0, 63>>, <<913, 929, 0, 32>>,
      <<931, 939, 0, 32>>, <<940, 940, -38, 0>>, <<941, 943, -37, 0>>,
      <<945, 961, -32, 0>>, <<962, 962, -31, 0>>, <<963, 971, -32, 0>>,
      <<972, 972, -64, 0>>, <<973, 974, -63, 0>>, <<975, 975, 0, 8>>,
      <<976, 976, -62, 0>>, <<977, 977, -57, 0>>, <<981, 981, -47, 0>>,
      <<982, 982, -54, 0>>, <<983, 983, -8, 0>>,
      <<984, 1007, UpperLower, UpperLower>>, <<1008, 1008, -86, 0>>,
      <<1009, 1009, -80, 0>>, <<1010, 1010, 7, 0>>, <<1011, 1011, -116, 0>>,
      <<1012, 1012, 0, -60>>, <<1013, 1013, -96, 0>>,
      <<1015, 1016, UpperLower, UpperLower>>, <<1017, 1017, 0, -7>>,
      <<1018, 1019, UpperLower, UpperLower>>, <<1021, 1023, 0, -130>>,
      <<1024, 1039, 0, 80>>, <<1040, 1071, 0, 32>>, <<1072, 1103, -32, 0>>,
      <<1104, 1119, -80, 0>>, <<1120, 1153, UpperLower, UpperLower>>,
      <<1162, 1215, UpperLower, UpperLower>>, <<1216, 1216, 0, 15>>,
      <<1217, 1230, UpperLower, UpperLower>>, <<1231, 1231, -15, 0>>,
      <<1232, 1327, UpperLower, UpperLower>>, <<1329, 1366, 0, 48>>,
      <<1377, 1414, -48, 0>>, <<4256, 4293, 0, 7264>>,
      <<4295, 4295, 0, 7264>>, <<4301, 4301, 0, 7264>>,
      <<4304, 4346, 3008, 0>>, <<4349, 4351, 3008, 0>>,
      <<5024, 5103, 0, 38864>>, <<5104, 5109, 0, 8>>, <<5112, 5117, -8, 0>>,
      <<7296, 7296, -6254, 0>>, <<7297, 7297, -6253, 0>>,
      <<7298, 7298, -6244, 0>>, <<7299, 7300, -6242, 0>>,
      <<7301, 7301, -6243, 0>>, <<7302, 7302, -6236, 0>>,
      <<7303, 7303, -6181, 0>>, <<7304, 7304, 35266, 0>>,
      <<7312, 7354, 0, -3008>>, <<7357, 7359, 0, -3008>>,
      <<7545, 7545, 35332, 0>>, <<7549, 7549, 3814, 0>>,
      <<7566, 7566, 35384, 0>>, <<7680, 7829, UpperLower, UpperLower>>,
      <<7835, 7835, -59, 0>>, <<7838, 7838, 0, -7615>>,
      <<7840, 7935, UpperLower, UpperLower>>, <<7936, 7943, 8, 0>>,
      <<7944, 7951, 0, -8>>, <<7952, 7957, 8, 0>>, <<7960, 7965, 0, -8>>,
      <<7968, 7975, 8, 0>>, <<7976, 7983, 0, -8>>, <<7984, 7991, 8, 0>>,
      <<7992, 7999, 0, -8>>, <<8000, 8005, 8, 0>>, <<8008, 8013, 0, -8>>,
      <<8017, 8017, 8, 0>>, <<8019, 8019, 8, 0>>, <<8021, 8021, 8, 0>>,
      <<8023, 8023, 8, 0>>, <<8025, 8025, 0, -8>>, <<8027, 8027, 0, -8>>,
      <<8029, 8029, 0, -8>>, <<8031, 8031, 0, -8>>, <<8032, 8039, 8, 0>>,
      <<8040, 8047, 0, -8>>, <<8048, 8049, 74, 0>>, <<8050, 8053, 86, 0>>,
      <<8054, 8055, 100, 0>>, <<8056, 8057, 128, 0>>, <<8058, 8059, 112, 0>>,
      <<8060, 8061, 126, 0>>, <<8064, 8071, 8, 0>>, <<8072, 8079, 0, -8>>,
      <<8080, 8087, 8, 0>>, <<8088, 8095, 0, -8>>, <<8096, 8103, 8, 0>>,
      <<8104, 8111, 0, -8>>, <<8112, 8113, 8, 0>>, <<8115, 8115, 9, 0>>,
      <<8120, 8121, 0, -8>>, <<8122, 8123, 0, -74>>, <<8124, 8124, 0, -9>>,
      <<8126, 8126, -7205, 0>>, <<8131, 8131, 9, 0>>, <<8136, 8139, 0, -86>>,
      <<8140, 8140, 0, -9>>, <<8144, 8145, 8, 0>>, <<8152, 8153, 0, -8>>,
      <<8154, 8155, 0, -100>>, <<8160, 8161, 8, 0>>, <<8165, 8165, 7, 0>>,
      <<8168, 8169, 0, -8>>, <<8170, 8171, 0, -112>>, <<8172, 8172, 0, -7>>,
      <<8179, 8179, 9, 0>>, <<8184, 8185, 0, -128>>, <<8186, 8187, 0, -126>>,
      <<8188, 8188, 0, -9>>, <<8486, 8486, 0, -7517>>,
      <<8490, 8490, 0, -8383>>, <<8491, 8491, 0, -8262>>,
      <<8498, 8498, 0, 28>>, <<8526, 8526, -28, 0>>, <<8544, 8559, 0, 16>>,
      <<8560, 8575, -16, 0>>, <<8579, 8580, UpperLower, UpperLower>>,
      <<9398, 9423, 0, 26>>, <<9424, 9449, -26, 0>>, <<11264, 11311, 0, 48>>,
      <<11312, 11359, -48, 0>>, <<11360, 11361, UpperLower, UpperLower>>,
      <<11362, 11362, 0, -10743>>, <<11363, 11363, 0, -3814>>,
      <<11364, 11364, 0, -10727>>, <<11365, 11365, -10795, 0>>,
      <<11366, 11366, -10792, 0>>, <<11367, 11372, UpperLower, UpperLower>>,
      <<11373, 11373, 0, -10780>>, <<11374, 11374, 0, -10749>>,
      <<11375, 11375, 0, -10783>>, <<11376, 11376, 0, -10782>>,
      <<11378, 11379, UpperLower, UpperLower>>,
      <<11381, 11382, UpperLower, UpperLower>>, <<11390, 11391, 0, -10815>>,
      <<11392, 11491, UpperLower, UpperLower>>,
      <<11499, 11502, UpperLower, UpperLower>>,
      <<11506, 11507, UpperLower, UpperLower>>, <<11520, 11557, -7264, 0>>,
      <<11559, 11559, -7264, 0>>, <<11565, 11565, -7264, 0>>,
      <<42560, 42605, UpperLower, UpperLower>>,
      <<42624, 42651, UpperLower, UpperLower>>,
      <<42786, 42799, UpperLower, UpperLower>>,
      <<42802, 42863, UpperLower, UpperLower>>,
      <<42873, 42876, UpperLower, UpperLower>>, <<42877, 42877, 0, -35332>>,
      <<42878, 42887, UpperLower, UpperLower>>,
      <<42891, 42892, UpperLower, UpperLower>>, <<42893, 42893, 0, -42280>>,
      <<42896, 42899, UpperLower, UpperLower>>, <<42900, 42900, 48, 0>>,
      <<42902, 42921, UpperLower, UpperLower>>, <<42922, 42922, 0, -42308>>,
      <<42923, 42923, 0, -42319>>, <<42924, 42924, 0, -42315>>,
      <<42925, 42925, 0, -42305>>, <<42926, 42926, 0, -42308>>,
      <<42928, 42928, 0, -42258>>, <<42929, 42929, 0, -42282>>,
      <<42930, 42930, 0, -42261>>, <<42931, 42931, 0, 928>>,
      <<42932, 42947, UpperLower, UpperLower>>, <<42948, 42948, 0, -48>>,
      <<42949, 42949, 0, -42307>>, <<42950, 42950, 0, -35384>>,
      <<42951, 42954, UpperLower, UpperLower>>,
      <<42960, 42961, UpperLower, UpperLower>>,
      <<42966, 42969, UpperLower, UpperLower>>,
      <<42997, 42998, UpperLower, UpperLower>>, <<43859, 43859, -928, 0>>,
      <<43888, 43967, -38864, 0>>, <<65313, 65338, 0, 32>>,
      <<65345, 65370, -32, 0>>, <<66560, 66599, 0, 40>>,
      <<66600, 66639, -40, 0>>, <<66736, 66771, 0, 40>>,
      <<66776, 66811, -40, 0>>, <<66928, 66938, 0, 39>>,
      <<66940, 66954, 0, 39>>, <<66956, 66962, 0, 39>>,
      <<66964, 66965, 0, 39>>, <<66967, 66977, -39, 0>>,
      <<66979, 66993, -39, 0>>, <<66995, 67001, -39, 0>>,
      <<67003, 67004, -39, 0>>, <<68736, 68786, 0, 64>>,
      <<68800, 68850, -64, 0>>, <<71840, 71871, 0, 32>>,
      <<71872, 71903, -32, 0>>, <<93760, 93791, 0, 32>>,
      <<93792, 93823, -32, 0>>, <<125184, 125217, 0, 34>>,
      <<125218, 125251, -34, 0>>
    >>

\* unicode.to(_case, r, caseRange): a binary search of the table between
\* positions lo (inclusive) and hi (exclusive), counted from 0; a rune in no
\* range maps to itself.
RECURSIVE to(_, _, _, _)
to(which, r, lo, hi) ==
    IF lo >= hi THEN r
    ELSE LET m  == lo + ((hi - lo) \div 2)
             cr == CaseRanges[m + 1]
         IN  IF cr[1] <= r /\ r <= cr[2]
             THEN LET delta == cr[3 + which]
                      off == r - cr[1]
                  IN  IF delta > MaxRune
                      THEN cr[1] + ((off - (off % 2)) + which)
                      ELSE r + delta
             ELSE IF r < cr[1] THEN to(which, r, lo, m)
             ELSE to(which, r, m + 1, hi)

\* unicode.ToLower: ASCII directly, every other rune through the table.
LowerRune(r) ==
    IF r < 128 THEN (IF r >= 65 /\ r <= 90 THEN r + 32 ELSE r)
    ELSE to(LowerCase, r, 0, Len(CaseRanges))

\* unicode.ToUpper: ASCII directly, every other rune through the table.
UpperRune(r) ==
    IF r < 128 THEN (IF r >= 97 /\ r <= 122 THEN r - 32 ELSE r)
    ELSE to(UpperCase, r, 0, Len(CaseRanges))

\* strings.Map(mapping, s) from byte i on: every rune is mapped and written
\* back in UTF-8; an invalid byte reads as RuneError and is written as U+FFFD.
RECURSIVE MapFrom(_, _, _)
MapFrom(lower, s, i) ==
    IF i > Len(s) THEN <<>>
    ELSE LET r == RuneAt(s, i)
         IN  EncodeRune(IF lower THEN LowerRune(r) ELSE UpperRune(r))
             \o MapFrom(lower, s, i + RuneWidth(s, i))

\* strings.ToLower.
ToLower(s) == MapFrom(TRUE, s, 1)

\* strings.ToUpper.
ToUpper(s) == MapFrom(FALSE, s, 1)

\* strings.HasPrefix.
HasPrefix(s, prefix) ==
    Len(s) >= Len(prefix) /\ SubSeq(s, 1, Len(prefix)) = prefix

\* Go's s < t on strings: byte-wise lexicographic order.
RECURSIVE StrLess(_, _)
StrLess(s, t) ==
    IF t = <<>> THEN FALSE
    ELSE IF s = <<>> THEN TRUE
    ELSE IF s[1] # t[1] THEN s[1] < t[1]
    ELSE StrLess(Tail(s), Tail(t))

\* word[:i]
Slice(s, i) == SubSeq(s, 1, i)


(***************************************************************************)
(* The builder (src/go/main.go, build and mergeDeduplicate), on word lists *)
(* as sequences of strings and on the map as a function from keys to word  *)
(* sequences.                                                              *)
(***************************************************************************)
\* One step of insertion: x is placed before the first element it is
\* smaller than.
RECURSIVE Insert(_, _)
Insert(x, sorted) ==
    IF sorted = <<>> THEN <<x>>
    ELSE IF StrLess(x, Head(sorted)) THEN <<x>> \o sorted
    ELSE <<Head(sorted)>> \o Insert(x, Tail(sorted))

\* sort.Strings: the list in ascending byte order.  Equal strings are
\* indistinguishable, so the result does not depend on the algorithm.
RECURSIVE SortStrings(_)
SortStrings(list) ==
    IF list = <<>> THEN <<>>
    ELSE Insert(Head(list), SortStrings(Tail(list)))

\* The elements of a sequence.
Range(seq) == { seq[i] : i \in 1..Len(seq) }

\* One loop of mergeDeduplicate: the items not seen before are appended to
\* result, in order (seen is exactly the set of strings in result).
RECURSIVE AppendUnseen(_, _)
AppendUnseen(result, items) ==
    IF items = <<>> THEN result
    ELSE AppendUnseen(
            IF Head(items) \in Range(result) THEN result
            ELSE Append(result, Head(items)),
            Tail(items))

\* A merge that trusts its first slice to hold no repeats.
mergeTrustFirst(slice1, slice2) == AppendUnseen(slice1, slice2)

\* A merge whose second loop appends without looking at seen.
mergeSecondUnchecked(slice1, slice2) == AppendUnseen(<<>>, slice1) \o slice2

\* mergeDeduplicate(slice1, slice2)
mergeDeduplicate(slice1, slice2) ==
    AppendUnseen(AppendUnseen(<<>>, slice1), slice2)

\* A candidate loop with the arguments of HasPrefix exchanged.
FindMatchesSwapped(list, prefix) ==
    SelectSeq(list, LAMBDA candidate : HasPrefix(prefix, ToLower(candidate)))

\* A candidate loop that takes only the words longer than the prefix.
FindMatchesProper(list, prefix) ==
    SelectSeq(list, LAMBDA candidate :
        /\ HasPrefix(ToLower(candidate), prefix)
        /\ Len(candidate) > Len(prefix))

\* The candidate loop of build: the words whose lower-cased form starts with
\* prefix, in the order of the (sorted) list.
FindMatches(list, prefix) ==
    SelectSeq(list, LAMBDA candidate : HasPrefix(ToLower(candidate), prefix))

\* A store that leaves the entry of a key seen before as it is.
StoreMatchesKeepFirst(t, prefix, matches) ==
    IF prefix \in DOMAIN t THEN t
    ELSE [k \in DOMAIN t \cup {prefix} |->
            IF k = prefix THEN matches ELSE t[k]]

\* The store of build: a key seen before gets the merge of its entry with
\* the new matches, a new key gets the matches as they are.
StoreMatches(t, prefix, matches) ==
    IF prefix \in DOMAIN t
    THEN [t EXCEPT ![prefix] = mergeDeduplicate(t[prefix], matches)]
    ELSE [k \in DOMAIN t \cup {prefix} |->
            IF k = prefix THEN matches ELSE t[k]]

\* A prefix loop that starts at the empty prefix, word[:0].
FirstPrefixLenZero == 1 - 1

\* The first prefix length build visits.
FirstPrefixLen == 1

\* A prefix loop that stops one short of the whole word (i < len(word)).
RECURSIVE BuildPrefixesShort(_, _, _, _)
BuildPrefixesShort(t, list, word, i) ==
    IF i >= Len(word) THEN t
    ELSE LET prefix == ToLower(Slice(word, i))
         IN  BuildPrefixesShort(
                StoreMatches(t, prefix, FindMatches(list, prefix)),
                list, word, i + 1)

\* The prefix loop of build for one word, from prefix length i on.
RECURSIVE BuildPrefixes(_, _, _, _)
BuildPrefixes(t, list, word, i) ==
    IF i > Len(word) THEN t
    ELSE LET prefix == ToLower(Slice(word, i))
         IN  BuildPrefixes(
                StoreMatches(t, prefix, FindMatches(list, prefix)),
                list, word, i + 1)

\* The word loop of build, from the w-th word on.  The map is evaluated
\* after every word, by the comparison with the map before it (a repeated
\* or empty word leaves it as it was), so that the evaluation of a long
\* list does not nest one store inside the other.
RECURSIVE BuildWords(_, _, _)
BuildWords(t, list, w) ==
    IF w > Len(list) THEN t
    ELSE LET next == BuildPrefixes(t, list, list[w], FirstPrefixLen)
         IN  IF next = t THEN BuildWords(t, list, w + 1)
             ELSE BuildWords(next, list, w + 1)

\* A build that does not sort.
SortSkipped(list) == list

\* What build does to the caller's slice: sort.Strings(words).
SortInPlace(list) == SortStrings(list)

\* build(words): the map it leaves in sst.tree, starting from the empty map.
build(list) == BuildWords(<<>>, SortInPlace(list), 1)

(***************************************************************************)
(* The state.  A Go slice is a header (backing array, length) and several  *)
(* headers may share one backing array, so the arrays are kept apart from  *)
(* the headers: an entry of sst.tree points into arrays, a value returned  *)
(* to caller c points into bufs[c] unless the code hands out a stored      *)
(* slice.                                                                   *)
(***************************************************************************)
VARIABLES
    phase,      \* "new" until NewStaticSearchTree has returned, then "built"
    input,      \* the word list as the caller wrote it (never changes)
    words,      \* the caller's slice, the argument of NewStaticSearchTree
    tree,       \* sst.tree: key -> slice header
    arrays,     \* the backing arrays of the entries of sst.tree
    frames,     \* per caller: the call it is in, its locals, its result
    bufs,       \* per caller: the backing array allocated by its last call
    zheap,      \* the Zig port: every allocation made, with its frees
    ztree,      \* the Zig port: self.tree, key -> key and item allocations
    zpc         \* the Zig port: where init -> build -> deinit stands

vars ==
    <<phase, input, words, tree, arrays, frames, bufs, zheap, ztree, zpc>>

\* The state of the Zig port (src/unnamed/part_001), which the Go
\* operations leave alone.
zig == <<zheap, ztree, zpc>>

\* The Zig port not in use.
ZigOff ==
    [pc |-> "off", mode |-> "off", w |-> 0, i |-> 0, sorted |-> 0,
     searches |-> 0, results |-> <<>>]

\* The nil slice.
NilSlice == [base |-> "nil", id |-> 0, len |-> 0]

\* The slice header over the j-th array of the tree, or over caller c's array.
TreeSlice(j, n) == [base |-> "tree", id |-> j, len |-> n]
CallerSlice(c, n) == [base |-> "caller", id |-> c, len |-> n]

\* The elements a slice header shows, given the arrays.
Deref(a, b, h) ==
    IF h.base = "tree" THEN SubSeq(a[h.id], 1, h.len)
    ELSE IF h.base = "caller" THEN SubSeq(b[h.id], 1, h.len)
    ELSE <<>>

\* The elements of a slice in the current state.
Elems(h) == Deref(arrays, bufs, h)

\* The stored entry of key k, as a word sequence.
Entry(k) == Elems(tree[k])

\* A caller that is in no call and holds no result.
Idle ==
    [pc |-> "idle", op |-> "none", q |-> <<>>, limit |-> 0, exists |-> FALSE,
     local |-> NilSlice, keys |-> <<>>, ret |-> NilSlice, n |-> 0,
     touched |-> FALSE]

\* The word lists of at most n words.
Lists(n) == UNION { [1..m -> Vocabulary] : m \in 0..n }

\* The set S as a sequence in ascending order.
RECURSIVE Ascending(_)
Ascending(S) ==
    IF S = {} THEN <<>>
    ELSE LET least == CHOOSE x \in S : \A y \in S \ {x} : StrLess(x, y)
         IN  <<least>> \o Ascending(S \ {least})

\* The position of x in a sequence that holds it.
IndexOf(seq, x) == CHOOSE i \in 1..Len(seq) : seq[i] = x

(***************************************************************************)
(* NewStaticSearchTree(words): make the map, build it.  build sorts the    *)
(* caller's slice in place and stores one freshly appended slice per key;  *)
(* a key whose matches were never appended to holds the nil slice.         *)
(***************************************************************************)
\* A build that sorts a copy of the list and leaves the caller's slice as
\* it was given.
NewStaticSearchTreeOnCopy ==
    /\ phase = "new"
    /\ LET t  == build(words)
           ks == Ascending(DOMAIN t)
       IN  /\ words' = words
           /\ arrays' = [j \in 1..Len(ks) |-> t[ks[j]]]
           /\ tree' = [k \in DOMAIN t |->
                         IF t[k] = <<>> THEN NilSlice
                         ELSE TreeSlice(IndexOf(ks, k), Len(t[k]))]
    /\ phase' = "built"
    /\ UNCHANGED <<input, frames, bufs>>
    /\ UNCHANGED zig

NewStaticSearchTree ==
    /\ phase = "new"
    /\ LET t  == build(words)
           ks == Ascending(DOMAIN t)
       IN  /\ words' = SortInPlace(words)
           /\ arrays' = [j \in 1..Len(ks) |-> t[ks[j]]]
           /\ tree' = [k \in DOMAIN t |->
                         IF t[k] = <<>> THEN NilSlice
                         ELSE TreeSlice(IndexOf(ks, k), Len(t[k]))]
    /\ phase' = "built"
    /\ UNCHANGED <<input, frames, bufs>>
    /\ UNCHANGED zig

(***************************************************************************)
(* Search(query), in two steps so that calls of several callers interleave:*)
(* the map lookup under the lower-cased query, then the copy and return.   *)
(* SearchWithLimit(query, limit) calls Search and cuts its result.         *)
(***************************************************************************)
\* query = strings.ToLower(query)
SearchKey(query) == ToLower(query)

\* A lookup that remembers a miss by storing the nil slice under the key.
TreeCachingMisses(t, key) ==
    IF key \in DOMAIN t THEN t
    ELSE [k \in DOMAIN t \cup {key} |-> IF k = key THEN NilSlice ELSE t[k]]

\* The map as Search leaves it after its lookup: Search only reads.
TreeAfterLookup(t, key) == t

\* matches, exists := sst.tree[query]
SearchLookup(c, op, query, limit) ==
    /\ phase = "built"
    /\ frames[c].pc = "idle"
    /\ LET key == SearchKey(query)
       IN  /\ frames' = [frames EXCEPT ![c] =
                  [Idle EXCEPT !.pc = "lookup", !.op = op, !.q = query,
                               !.limit = limit,
                               !.exists = (key \in DOMAIN tree),
                               !.local = IF key \in DOMAIN tree THEN tree[key]
                                         ELSE NilSlice]]
           /\ tree' = TreeAfterLookup(tree, key)
    /\ bufs' = [bufs EXCEPT ![c] = <<>>]
    /\ UNCHANGED <<phase, input, words, arrays>>
    /\ UNCHANGED zig

\* A Search that returns the stored slice itself.
SearchReturnStored(c, matches) == matches

\* The slice Search returns for the stored slice it found: a new slice of
\* the same length over the caller's own array (make, then copy).
SearchReturn(c, matches) == CallerSlice(c, matches.len)

\* A cut that is one element too long.
LimitSliceOffByOne(matches, limit) ==
    IF matches.len <= limit THEN matches
    ELSE [matches EXCEPT !.len = limit + 1]

\* SearchWithLimit's cut: the result itself when it is short enough,
\* matches[:limit] otherwise.
LimitSlice(matches, limit) ==
    IF matches.len <= limit THEN matches
    ELSE [matches EXCEPT !.len = limit]

\* A slice expression that is never out of range.
SliceInRange(matches, limit) == FALSE

\* The bounds check of matches[:limit]: the run-time panics ("slice bounds
\* out of range") when limit is negative or beyond the capacity, which for
\* a slice Search returns is its length.
SlicePanics(matches, limit) == limit < 0 \/ limit > matches.len

\* result := make([]string, len(matches)); copy(result, matches); return
\* result -- or return []string{} when the key is missing; then, in
\* SearchWithLimit, the cut, which returns nothing when matches[:limit]
\* panics.
SearchFinish(c) ==
    /\ frames[c].pc = "lookup"
    /\ LET f == frames[c]
           result == IF f.exists THEN SearchReturn(c, f.local)
                     ELSE CallerSlice(c, 0)
           sliced == f.op = "SearchWithLimit" /\ ~(result.len <= f.limit)
       IN  /\ bufs' = [bufs EXCEPT ![c] =
                         IF f.exists THEN Elems(f.local) ELSE <<>>]
           /\ frames' = [frames EXCEPT ![c] =
                  IF sliced /\ SlicePanics(result, f.limit)
                  THEN [f EXCEPT !.pc = "panicked"]
                  ELSE [f EXCEPT !.pc = "done",
                                 !.ret = IF f.op = "SearchWithLimit"
                                         THEN LimitSlice(result, f.limit)
                                         ELSE result]]
    /\ UNCHANGED <<phase, input, words, tree, arrays>>
    /\ UNCHANGED zig

(***************************************************************************)
(* GetAllPrefixes(): range over the map in an order the runtime picks,     *)
(* then sort.Strings and return.  Size(): len(sst.tree).                   *)
(***************************************************************************)
\* Every order in which the elements of S can be listed.
RECURSIVE Orders(_)
Orders(S) ==
    IF S = {} THEN { <<>> }
    ELSE UNION { { <<x>> \o rest : rest \in Orders(S \ {x}) } : x \in S }

\* for prefix := range sst.tree { prefixes = append(prefixes, prefix) }
\* The order of a range over a map is not specified: any order of the keys.
PrefixesRange(c) ==
    /\ phase = "built"
    /\ frames[c].pc = "idle"
    /\ \E ks \in Orders(DOMAIN tree) :
          frames' = [frames EXCEPT ![c] =
              [Idle EXCEPT !.pc = "ranged", !.op = "GetAllPrefixes",
                           !.keys = ks]]
    /\ bufs' = [bufs EXCEPT ![c] = <<>>]
    /\ UNCHANGED <<phase, input, words, tree, arrays>>
    /\ UNCHANGED zig

\* A GetAllPrefixes that returns the keys in the order the range gave them.
PrefixesUnsorted(c) ==
    /\ frames[c].pc = "ranged"
    /\ LET f == frames[c]
       IN  /\ bufs' = [bufs EXCEPT ![c] = f.keys]
           /\ frames' = [frames EXCEPT ![c] =
                  [f EXCEPT !.pc = "done", !.keys = <<>>,
                            !.ret = IF f.keys = <<>> THEN NilSlice
                                    ELSE CallerSlice(c, Len(f.keys))]]
    /\ UNCHANGED <<phase, input, words, tree, arrays>>
    /\ UNCHANGED zig

\* sort.Strings(prefixes); return prefixes (nil when the map is empty)
PrefixesFinish(c) ==
    /\ frames[c].pc = "ranged"
    /\ LET f == frames[c]
       IN  /\ bufs' = [bufs EXCEPT ![c] = SortStrings(f.keys)]
           /\ frames' = [frames EXCEPT ![c] =
                  [f EXCEPT !.pc = "done", !.keys = <<>>,
                            !.ret = IF f.keys = <<>> THEN NilSlice
                                    ELSE CallerSlice(c, Len(f.keys))]]
    /\ UNCHANGED <<phase, input, words, tree, arrays>>
    /\ UNCHANGED zig

\* return len(sst.tree)
Size(c) ==
    /\ phase = "built"
    /\ frames[c].pc = "idle"
    /\ frames' = [frames EXCEPT ![c] =
          [Idle EXCEPT !.pc = "done", !.op = "Size",
                       !.n = Cardinality(DOMAIN tree)]]
    /\ bufs' = [bufs EXCEPT ![c] = <<>>]
    /\ UNCHANGED <<phase, input, words, tree, arrays>>
    /\ UNCHANGED zig

(***************************************************************************)
(* The caller overwrites element j of the slice it was returned            *)
(* (results1[0] = "modified" in TestSearchResultsImmutability).            *)
(***************************************************************************)
\* "modified", a string that is no word of the vocabulary.
Modified == <<109, 111, 100, 105, 102, 105, 101, 100>>

Overwrite(c, j) ==
    /\ frames[c].pc = "done"
    /\ ~frames[c].touched
    /\ j \in 1..frames[c].ret.len
    /\ LET h == frames[c].ret
       IN  /\ arrays' = IF h.base = "tree"
                        THEN [arrays EXCEPT ![h.id][j] = Modified]
                        ELSE arrays
           /\ bufs' = IF h.base = "caller"
                      THEN [bufs EXCEPT ![h.id][j] = Modified]
                      ELSE bufs
    /\ frames' = [frames EXCEPT ![c].touched = TRUE]
    /\ UNCHANGED <<phase, input, words, tree>>
    /\ UNCHANGED zig

\* The caller drops the value it was returned and is free to call again.
Drop(c) ==
    /\ frames[c].pc = "done"
    /\ frames' = [frames EXCEPT ![c] = Idle]
    /\ bufs' = [bufs EXCEPT ![c] = <<>>]
    /\ UNCHANGED <<phase, input, words, tree, arrays>>
    /\ UNCHANGED zig

(***************************************************************************)
(* Spec: one caller, every word list of at most MaxWords words.            *)
(***************************************************************************)
InitWith(lists, callers) ==
    /\ phase = "new"
    /\ input \in lists
    /\ words = input
    /\ tree = <<>>
    /\ arrays = <<>>
    /\ frames = [c \in callers |-> Idle]
    /\ bufs = [c \in callers |-> <<>>]
    /\ zheap = <<>>
    /\ ztree = <<>>
    /\ zpc = ZigOff

Init == InitWith(Lists(MaxWords), {1})

CallSearch ==
    \E c \in DOMAIN frames, q \in Queries : SearchLookup(c, "Search", q, 0)

CallSearchWithLimit ==
    \E c \in DOMAIN frames, q \in Queries, limit \in 0..MaxLimit :
        SearchLookup(c, "SearchWithLimit", q, limit)

ReturnSearch == \E c \in DOMAIN frames : SearchFinish(c)

CallGetAllPrefixes == \E c \in DOMAIN frames : PrefixesRange(c)

ReturnGetAllPrefixes == \E c \in DOMAIN frames : PrefixesFinish(c)

CallSize == \E c \in DOMAIN frames : Size(c)

CallerOverwrites ==
    \E c \in DOMAIN frames : \E j \in 1..frames[c].ret.len : Overwrite(c, j)

CallerDrops == \E c \in DOMAIN frames : Drop(c)

Next ==
    \/ NewStaticSearchTree
    \/ CallSearch
    \/ CallSearchWithLimit
    \/ ReturnSearch
    \/ CallGetAllPrefixes
    \/ ReturnGetAllPrefixes
    \/ CallSize
    \/ CallerOverwrites
    \/ CallerDrops

Spec == Init /\ [][Next]_vars

(***************************************************************************)
(* SpecCallers: several callers whose calls interleave step by step, on a  *)
(* few word lists and queries.                                             *)
(***************************************************************************)
\* The callers that share one index.
NumCallers == 2

\* The word lists:  ["ab", "a"]  ["A", "b", "a"]  ["µ", "aB", "µ"]  []
\* (at most four keys, so that every order of a range over them is tried
\* for every caller).
CallerInputs ==
    { << <<97, 98>>, <<97>> >>, << <<65>>, <<98>>, <<97>> >>,
      << <<194, 181>>, <<97, 66>>, <<194, 181>> >>, <<>> }

\* The queries:  "A"  "ab"  "c"  "µ"
CallerQueries == { <<65>>, <<97, 98>>, <<99>>, <<194, 181>> }

\* The limits.
CallerLimits == {1}

InitCallers == InitWith(CallerInputs, 1..NumCallers)

SharedSearch ==
    \E c \in DOMAIN frames, q \in CallerQueries :
        SearchLookup(c, "Search", q, 0)

SharedSearchWithLimit ==
    \E c \in DOMAIN frames, q \in CallerQueries, limit \in CallerLimits :
        SearchLookup(c, "SearchWithLimit", q, limit)

NextCallers ==
    \/ NewStaticSearchTree
    \/ SharedSearch
    \/ SharedSearchWithLimit
    \/ ReturnSearch
    \/ CallGetAllPrefixes
    \/ ReturnGetAllPrefixes
    \/ CallSize
    \/ CallerOverwrites
    \/ CallerDrops

SpecCallers == InitCallers /\ [][NextCallers]_vars

(***************************************************************************)
(* SpecExamples: the word lists the repository itself runs, the list of    *)
(* main and the three-word list of the tests, queried by one caller with   *)
(* the queries of main.  The calls are those main makes: Size, Search and  *)
(* SearchWithLimit.                                                        *)
(***************************************************************************)
\* The words of the examples, as bytes.
W_app == <<97, 112, 112>>
W_apple == <<97, 112, 112, 108, 101>>
W_application == <<97, 112, 112, 108, 105, 99, 97, 116, 105, 111, 110>>
W_apply == <<97, 112, 112, 108, 121>>
W_apricot == <<97, 112, 114, 105, 99, 111, 116>>
W_banana == <<98, 97, 110, 97, 110, 97>>
W_band == <<98, 97, 110, 100>>
W_bandana == <<98, 97, 110, 100, 97, 110, 97>>
W_bank == <<98, 97, 110, 107>>
W_car == <<99, 97, 114>>
W_card == <<99, 97, 114, 100>>
W_care == <<99, 97, 114, 101>>
W_careful == <<99, 97, 114, 101, 102, 117, 108>>
W_cat == <<99, 97, 116>>
W_dog == <<100, 111, 103>>
W_door == <<100, 111, 111, 114>>
W_double == <<100, 111, 117, 98, 108, 101>>
W_elephant == <<101, 108, 101, 112, 104, 97, 110, 116>>
W_elevator == <<101, 108, 101, 118, 97, 116, 111, 114>>
W_eleven == <<101, 108, 101, 118, 101, 110>>

\* words of main.
DemoWords ==
    << W_apple, W_application, W_apply, W_apricot,
       W_banana, W_band, W_bandana, W_bank,
       W_cat, W_car, W_card, W_care, W_careful,
       W_dog, W_door, W_double,
       W_elephant, W_eleven, W_elevator >>

\* ["apple", "app", "application"]
Scenario1Words == << W_apple, W_app, W_application >>

\* queries and caseQueries of main:
\*   "app"  "ban"  "car"  "el"  "z"  "do"  "APP"  "Car"  "EL"
Q_app == <<97, 112, 112>>
Q_ban == <<98, 97, 110>>
Q_car == <<99, 97, 114>>
Q_el == <<101, 108>>
DemoQueries ==
    { Q_app, Q_ban, Q_car, Q_el, <<122>>, <<100, 111>>,
      <<65, 80, 80>>, <<67, 97, 114>>, <<69, 76>> }

\* The limit main passes to SearchWithLimit.
DemoLimit == 3

InitExamples == InitWith({DemoWords, Scenario1Words}, {1})

ExampleSearch ==
    \E c \in DOMAIN frames, q \in DemoQueries :
        SearchLookup(c, "Search", q, 0)

ExampleSearchWithLimit ==
    \E c \in DOMAIN frames, q \in DemoQueries :
        SearchLookup(c, "SearchWithLimit", q, DemoLimit)

NextExamples ==
    \/ NewStaticSearchTree
    \/ ExampleSearch
    \/ ExampleSearchWithLimit
    \/ ReturnSearch
    \/ CallSize
    \/ CallerOverwrites
    \/ CallerDrops

SpecExamples == InitExamples /\ [][NextExamples]_vars

(***************************************************************************)
(* SpecMerge: mergeDeduplicate called on its own, as TestMergeDeduplicate  *)
(* calls it, on every pair of word sequences of at most MaxMergeLen words. *)
(* arrays holds the two arguments a and b; call 1 is mergeDeduplicate(a,   *)
(* b), call 2 is mergeDeduplicate(b, a), call 3 merges b into the result   *)
(* of call 1.                                                              *)
(***************************************************************************)
\* The longest argument of mergeDeduplicate.
MaxMergeLen == 2

\* The words of the arguments:  "a"  "A"  "b"
MergeWords == { <<97>>, <<65>>, <<98>> }

MergeLists == UNION { [1..m -> MergeWords] : m \in 0..MaxMergeLen }

InitMerge ==
    /\ phase = "merge"
    /\ input = <<>>
    /\ words = <<>>
    /\ tree = <<>>
    /\ arrays \in [1..2 -> MergeLists]
    /\ frames = [c \in 1..3 |-> Idle]
    /\ bufs = [c \in 1..3 |-> <<>>]
    /\ zheap = <<>>
    /\ ztree = <<>>
    /\ zpc = ZigOff

\* Call c: result := mergeDeduplicate(slice1, slice2).  The result is built
\* by append from the nil slice.
MergeCall(c, slice1, slice2) ==
    /\ frames[c].pc = "idle"
    /\ LET result == mergeDeduplicate(slice1, slice2)
       IN  /\ bufs' = [bufs EXCEPT ![c] = result]
           /\ frames' = [frames EXCEPT ![c] =
                  [Idle EXCEPT !.pc = "done", !.op = "mergeDeduplicate",
                               !.ret = IF result = <<>> THEN NilSlice
                                       ELSE CallerSlice(c, Len(result))]]
    /\ UNCHANGED <<phase, input, words, tree, arrays>>
    /\ UNCHANGED zig

MergeAB ==
    /\ phase = "merge"
    /\ MergeCall(1, arrays[1], arrays[2])

MergeBA ==
    /\ phase = "merge"
    /\ MergeCall(2, arrays[2], arrays[1])

MergeAgain ==
    /\ phase = "merge"
    /\ frames[1].pc = "done"
    /\ MergeCall(3, Elems(frames[1].ret), arrays[2])

NextMerge ==
    \/ MergeAB
    \/ MergeBA
    \/ MergeAgain

SpecMerge == InitMerge /\ [][NextMerge]_vars

(***************************************************************************)
(* SpecCase: the operations of Spec on lists of words that differ only in  *)
(* letter case, ASCII and not.                                             *)
(***************************************************************************)
\* The words, as UTF-8 bytes:  "A"  "a"  "É" (U+00C9 = C3 89)
\*   "é" (U+00E9 = C3 A9)
CaseVocabulary == { <<65>>, <<97>>, <<195, 137>>, <<195, 169>> }

InitCase ==
    InitWith(UNION { [1..m -> CaseVocabulary] : m \in 0..MaxWords }, {1})

SpecCase == InitCase /\ [][Next]_vars

(***************************************************************************)
(* SpecSize: the operations of Spec on lists of words whose byte prefixes  *)
(* do not all lower-case to different strings.                             *)
(***************************************************************************)
\* The words, as UTF-8 bytes:  "a"  "ab"  "µ" (C2 B5)  U+FFFD (EF BF BD)
SizeVocabulary == { <<97>>, <<97, 98>>, <<194, 181>>, <<239, 191, 189>> }

InitSize ==
    InitWith(UNION { [1..m -> SizeVocabulary] : m \in 0..MaxWords }, {1})

SpecSize == InitSize /\ [][Next]_vars

(***************************************************************************)
(* SpecLimits: the operations of Spec on the lists of SpecCase, with calls *)
(* of SearchWithLimit that pass a negative limit.                          *)
(***************************************************************************)
\* The negative limits passed are -1 .. -MaxNegLimit.
MaxNegLimit == 2

CallSearchWithNegativeLimit ==
    \E c \in DOMAIN frames, q \in Queries, n \in 1..MaxNegLimit :
        SearchLookup(c, "SearchWithLimit", q, 0 - n)

NextLimits ==
    \/ NewStaticSearchTree
    \/ CallSearch
    \/ CallSearchWithLimit
    \/ CallSearchWithNegativeLimit
    \/ ReturnSearch
    \/ CallGetAllPrefixes
    \/ ReturnGetAllPrefixes
    \/ CallSize
    \/ CallerOverwrites
    \/ CallerDrops

SpecLimits == InitCase /\ [][NextLimits]_vars

(***************************************************************************)
(* SpecZig: the memory of the Zig port (src/unnamed/part_001) across       *)
(* init -> build -> queries -> deinit.  Every allocation of a string gets  *)
(* the next index of zheap and keeps it: its bytes and how often it was    *)
(* freed (0 = live).  The allocator never hands out an address again, and  *)
(* the buffers of the containers (ArrayList, HashMap) are left out.        *)
(* Freeing a string that was freed is undefined: the free is counted and   *)
(* the program goes on, or the program ends at it.                         *)
(* Reading a string that was freed is undefined.  What it yields depends   *)
(* on the build: a safe build has overwritten the freed bytes with the     *)
(* undefined pattern, a release build has left them as they were; in       *)
(* either the page may be gone, and then the read ends the program.        *)
(***************************************************************************)
\* The longest word list handed to the Zig build.
MaxZigWords == 3

\* The queries (search, searchWithLimit, getAllPrefixes, printTree) made
\* before deinit.
MaxZigSearches == 3

\* The words of the Zig lists:  "a"  "A"  "ab"  "b"
ZigVocabulary == { <<97>>, <<65>>, <<97, 98>>, <<98>> }

\* The queries of the Zig searches:  "A"  "c"
ZigQueries == { <<65>>, <<99>> }

\* The limits of searchWithLimit.
ZigLimits == {1}

\* The builds of the program: with the allocator's safety checks (Debug,
\* ReleaseSafe) or without them.
ZigModes == {"safe", "release"}

\* What a read of n freed bytes shows in a safe build: free has written the
\* undefined pattern 0xAA over each of them.
Poison(n) == [j \in 1..n |-> 170]

\* std.ascii.toLower on every byte (toLowerCaseAlloc).
ZigLower(s) ==
    [j \in 1..Len(s) |-> IF s[j] >= 65 /\ s[j] <= 90 THEN s[j] + 32 ELSE s[j]]

\* allocator.alloc / allocator.dupe: a new live allocation holding bytes.
ZigAlloc(h, bytes) == Append(h, [bytes |-> bytes, frees |-> 0])

\* allocator.free of allocation id.
ZigFree(h, id) == [h EXCEPT ![id].frees = @ + 1]

\* allocator.free of every allocation of a list, in order.
RECURSIVE ZigFreeList(_, _)
ZigFreeList(h, ids) ==
    IF ids = <<>> THEN h ELSE ZigFreeList(ZigFree(h, Head(ids)), Tail(ids))

\* The places of a list of frees at which the allocation to free is freed
\* already, by an earlier free of the list or before it.  Such a free is
\* undefined: the allocator of a safe build reports it and goes on, or
\* panics when the slot's bucket is gone; a release build does anything.
ZigDoubleFrees(h, ids) ==
    { j \in 1..Len(ids) :
        ZigFreeList(h, SubSeq(ids, 1, j - 1))[ids[j]].frees > 0 }

\* Where a list of frees may end the program: at one of its frees of freed
\* memory, or nowhere (0).
ZigStops(h, ids) == ZigDoubleFrees(h, ids) \cup {0}

\* The heap after the frees of a list that ends the program at place stop
\* (the frees before it were made), or runs to its end (stop = 0).
ZigFreeUpTo(h, ids, stop) ==
    IF stop = 0 THEN ZigFreeList(h, ids)
    ELSE ZigFreeList(h, SubSeq(ids, 1, stop - 1))

\* The bytes a read of allocation id yields: its length is that of the
\* slice read through, its content that of the memory.
ZigRead(h, mode, id) ==
    IF h[id].frees > 0 /\ mode = "safe" THEN Poison(Len(h[id].bytes))
    ELSE h[id].bytes

\* The freed allocations among ids.
ZigFreed(h, ids) == { id \in Range(ids) : h[id].frees > 0 }

\* Where a pass over ids may end the program: at the read of one of its
\* freed allocations, or nowhere (0).
ZigFaults(h, ids) == ZigFreed(h, ids) \cup {0}

\* The candidate loop of build from candidate c on: candidate_lower is
\* allocated and freed for every candidate, a matching candidate is duped
\* into matches.
RECURSIVE ZigMatches(_, _, _, _, _)
ZigMatches(h, sorted, prefix, c, matches) ==
    IF c > Len(sorted) THEN [heap |-> h, items |-> matches]
    ELSE LET lower == ZigLower(sorted[c])
             h1 == ZigFree(ZigAlloc(h, lower), Len(h) + 1)
         IN  IF HasPrefix(lower, prefix)
             THEN ZigMatches(ZigAlloc(h1, sorted[c]), sorted, prefix, c + 1,
                             Append(matches, Len(h1) + 1))
             ELSE ZigMatches(h1, sorted, prefix, c + 1, matches)

\* One loop of the Zig mergeDeduplicate: every item is duped; the copy
\* becomes a key of seen and an item of result when its bytes are new, and
\* is freed otherwise.  The loop stops at the item whose read faults.
RECURSIVE ZigMergeLoop(_, _, _, _, _, _)
ZigMergeLoop(h, mode, fault, items, seen, result) ==
    IF items = <<>>
    THEN [heap |-> h, seen |-> seen, result |-> result, fault |-> FALSE]
    ELSE IF Head(items) = fault
    THEN [heap |-> h, seen |-> seen, result |-> result, fault |-> TRUE]
    ELSE LET bytes == ZigRead(h, mode, Head(items))
             copy == Len(h) + 1
             h1 == ZigAlloc(h, bytes)
         IN  IF \E k \in seen : h[k].bytes = bytes
             THEN ZigMergeLoop(ZigFree(h1, copy), mode, fault, Tail(items),
                               seen, result)
             ELSE ZigMergeLoop(h1, mode, fault, Tail(items),
                               seen \cup {copy}, Append(result, copy))

\* The Zig mergeDeduplicate(allocator, list1, list2): the two loops, then
\* "free the seen map keys": every key of seen is freed, and the keys of
\* seen are the very copies that result holds.
ZigMergeDeduplicate(h, mode, fault, list1, list2) ==
    LET first == ZigMergeLoop(h, mode, fault, list1, {}, <<>>)
        second == ZigMergeLoop(first.heap, mode, fault, list2, first.seen,
                               first.result)
    IN  IF first.fault THEN first
        ELSE IF second.fault THEN second
        ELSE [heap |-> ZigFreeList(second.heap, second.result),
              seen |-> second.seen, result |-> second.result,
              fault |-> FALSE]

\* The first word after the w-th that has a prefix to visit.
ZigNextWord(sorted, w) ==
    LET rest == { x \in (w + 1)..Len(sorted) : Len(sorted[x]) > 0 }
    IN  IF rest = {} THEN Len(sorted) + 1
        ELSE CHOOSE x \in rest : \A y \in rest : x <= y

\* StaticSearchTree.init, before build, in a safe or in a release build.
InitZig ==
    /\ phase = "zig"
    /\ input \in UNION { [1..m -> ZigVocabulary] : m \in 0..MaxZigWords }
    /\ words = input
    /\ tree = <<>>
    /\ arrays = <<>>
    /\ frames = <<>>
    /\ bufs = <<>>
    /\ zheap = <<>>
    /\ ztree = <<>>
    /\ \E mode \in ZigModes :
          zpc = [ZigOff EXCEPT !.pc = "init", !.mode = mode]

\* build, up to the word loop: sorted_words is allocated, filled and sorted.
ZigBuildStart ==
    /\ phase = "zig"
    /\ zpc.pc = "init"
    /\ LET sorted == SortStrings(input)
       IN  /\ zheap' = ZigAlloc(zheap, sorted)
           /\ zpc' = [zpc EXCEPT !.pc = "build", !.sorted = Len(zheap) + 1,
                                 !.w = ZigNextWord(sorted, 0), !.i = 1]
    /\ UNCHANGED <<phase, input, words, tree, arrays, frames, bufs, ztree>>

\* build, one pass of the prefix loop: the prefix word[0..i] of the w-th
\* word is lower-cased into a new allocation, its matches are collected,
\* and getOrPut stores them under a new key or merges them into the entry
\* of a key that is there already.
ZigBuildVisit ==
    /\ phase = "zig"
    /\ zpc.pc = "build"
    /\ zpc.w <= Len(zheap[zpc.sorted].bytes)
    /\ LET sorted == zheap[zpc.sorted].bytes
           word == sorted[zpc.w]
           prefix == ZigLower(Slice(word, zpc.i))
           key == Len(zheap) + 1
           m == ZigMatches(ZigAlloc(zheap, prefix), sorted, prefix, 1, <<>>)
           next == IF zpc.i < Len(word) THEN [zpc EXCEPT !.i = @ + 1]
                   ELSE [zpc EXCEPT !.w = ZigNextWord(sorted, zpc.w),
                                    !.i = 1]
       IN  IF prefix \in DOMAIN ztree
           THEN \E fault \in ZigFaults(m.heap, ztree[prefix].items) :
                  LET old == ztree[prefix].items
                      merged == ZigMergeDeduplicate(m.heap, zpc.mode, fault,
                                                    old, m.items)
                  IN  IF merged.fault
                      THEN /\ zheap' = merged.heap
                           /\ ztree' = ztree
                           /\ zpc' = [zpc EXCEPT !.pc = "crashed"]
                      ELSE \E stop \in ZigStops(merged.heap, old \o m.items) :
                             /\ zheap' = ZigFreeUpTo(merged.heap,
                                                     old \o m.items, stop)
                             /\ ztree' = IF stop # 0 THEN ztree
                                         ELSE [ztree EXCEPT
                                           ![prefix].items = merged.result]
                             /\ zpc' = IF stop # 0
                                       THEN [zpc EXCEPT !.pc = "crashed"]
                                       ELSE next
           ELSE /\ zheap' = m.heap
                /\ ztree' = (prefix :> [key |-> key, items |-> m.items])
                            @@ ztree
                /\ zpc' = next
    /\ UNCHANGED <<phase, input, words, tree, arrays, frames, bufs>>

\* build returns: the deferred free of sorted_words.
ZigBuildEnd ==
    /\ phase = "zig"
    /\ zpc.pc = "build"
    /\ zpc.w > Len(zheap[zpc.sorted].bytes)
    /\ zheap' = ZigFree(zheap, zpc.sorted)
    /\ zpc' = [zpc EXCEPT !.pc = "built"]
    /\ UNCHANGED <<phase, input, words, tree, arrays, frames, bufs, ztree>>

\* allocator.dupe of every item of a list, one after the other, up to the
\* item whose read faults.
RECURSIVE ZigCopies(_, _, _, _, _)
ZigCopies(h, mode, fault, items, result) ==
    IF items = <<>> THEN [heap |-> h, result |-> result, fault |-> FALSE]
    ELSE IF Head(items) = fault
    THEN [heap |-> h, result |-> result, fault |-> TRUE]
    ELSE ZigCopies(ZigAlloc(h, ZigRead(h, mode, Head(items))), mode, fault,
                   Tail(items), Append(result, Len(h) + 1))

\* search(query) up to its return: query_lower is allocated, every item of
\* the entry is duped into result, and the deferred free of query_lower
\* runs.
ZigSearchResult(h, t, mode, fault, query) ==
    LET lower == ZigLower(query)
        h1 == ZigAlloc(h, lower)
        items == IF lower \in DOMAIN t THEN t[lower].items ELSE <<>>
        copies == ZigCopies(h1, mode, fault, items, <<>>)
    IN  IF copies.fault THEN copies
        ELSE [copies EXCEPT !.heap = ZigFree(copies.heap, Len(h) + 1)]

\* The items search(query) reads.
ZigEntry(t, query) ==
    IF ZigLower(query) \in DOMAIN t THEN t[ZigLower(query)].items ELSE <<>>

\* The caller has called a query and holds the list it returned, or the
\* program has ended inside the call.
ZigReturn(out) ==
    /\ zheap' = out.heap
    /\ zpc' = IF out.fault THEN [zpc EXCEPT !.pc = "crashed"]
              ELSE [zpc EXCEPT !.pc = "returned", !.results = out.result,
                               !.searches = @ + 1]

\* results = sst.search(query)
ZigSearch(query) ==
    /\ phase = "zig"
    /\ zpc.pc = "built"
    /\ zpc.searches < MaxZigSearches
    /\ \E fault \in ZigFaults(zheap, ZigEntry(ztree, query)) :
          ZigReturn(ZigSearchResult(zheap, ztree, zpc.mode, fault, query))
    /\ UNCHANGED <<phase, input, words, tree, arrays, frames, bufs, ztree>>

ZigSearches == \E query \in ZigQueries : ZigSearch(query)

\* results = sst.searchWithLimit(query, limit): the list search returns
\* when it holds at most limit items; otherwise the first limit of them are
\* duped into a new list and every item search returned is freed.
ZigSearchWithLimit(query, limit) ==
    /\ phase = "zig"
    /\ zpc.pc = "built"
    /\ zpc.searches < MaxZigSearches
    /\ \E fault \in ZigFaults(zheap, ZigEntry(ztree, query)) :
          LET matches == ZigSearchResult(zheap, ztree, zpc.mode, fault,
                                         query)
              limited == ZigCopies(matches.heap, zpc.mode, 0,
                                   SubSeq(matches.result, 1, limit), <<>>)
          IN  IF matches.fault \/ Len(matches.result) <= limit
              THEN ZigReturn(matches)
              ELSE ZigReturn([limited EXCEPT !.heap =
                                 ZigFreeList(limited.heap, matches.result)])
    /\ UNCHANGED <<phase, input, words, tree, arrays, frames, bufs, ztree>>

ZigLimitedSearches ==
    \E query \in ZigQueries, limit \in ZigLimits :
        ZigSearchWithLimit(query, limit)

\* The key strings of the entries of t, in the order keys lists them.
ZigKeys(t, keys) == [j \in 1..Len(keys) |-> t[keys[j]].key]

\* The allocations ids in ascending order of their bytes
\* (std.mem.sort with stringLessThan).
ZigSorted(h, ids) ==
    LET bytes == SortStrings([j \in 1..Len(ids) |-> h[ids[j]].bytes])
    IN  [j \in 1..Len(ids) |->
            CHOOSE id \in Range(ids) : h[id].bytes = bytes[j]]

\* getAllPrefixes() for the iteration order keys of the map: the key of
\* every entry is duped, and the copies are sorted.
ZigPrefixes(h, t, mode, keys) ==
    LET copies == ZigCopies(h, mode, 0, ZigKeys(t, keys), <<>>)
    IN  [copies EXCEPT !.result = ZigSorted(copies.heap, copies.result)]

\* prefixes = sst.getAllPrefixes(); the iterator of the map gives the
\* entries in some order.
ZigGetAllPrefixes ==
    /\ phase = "zig"
    /\ zpc.pc = "built"
    /\ zpc.searches < MaxZigSearches
    /\ \E keys \in Orders(DOMAIN ztree) :
          ZigReturn(ZigPrefixes(zheap, ztree, zpc.mode, keys))
    /\ UNCHANGED <<phase, input, words, tree, arrays, frames, bufs, ztree>>

\* The items of the entries of t under the keys of a list, one after the
\* other.
RECURSIVE ZigItems(_, _)
ZigItems(t, keys) ==
    IF keys = <<>> THEN <<>>
    ELSE t[Head(keys)].items \o ZigItems(t, Tail(keys))

\* sst.printTree(): getAllPrefixes, then every item of every entry is read
\* and printed, then the deferred free of the copies of the keys.
ZigPrintTree ==
    /\ phase = "zig"
    /\ zpc.pc = "built"
    /\ zpc.searches < MaxZigSearches
    /\ \E keys \in Orders(DOMAIN ztree) :
          LET prefixes == ZigPrefixes(zheap, ztree, zpc.mode, keys)
              printed == ZigItems(ztree, Ascending(DOMAIN ztree))
          IN  \E fault \in ZigFaults(zheap, printed) :
                 /\ zheap' = IF fault # 0 THEN prefixes.heap
                             ELSE ZigFreeList(prefixes.heap, prefixes.result)
                 /\ zpc' = IF fault # 0 THEN [zpc EXCEPT !.pc = "crashed"]
                           ELSE [zpc EXCEPT !.searches = @ + 1]
    /\ UNCHANGED <<phase, input, words, tree, arrays, frames, bufs, ztree>>

\* The caller's deferred freeStringList(allocator, results).
ZigFreeResults ==
    /\ phase = "zig"
    /\ zpc.pc = "returned"
    /\ zheap' = ZigFreeList(zheap, zpc.results)
    /\ zpc' = [zpc EXCEPT !.pc = "built", !.results = <<>>]
    /\ UNCHANGED <<phase, input, words, tree, arrays, frames, bufs, ztree>>

\* The frees of deinit when its iterator gives the entries in the order
\* keys: for every entry its key, then its items.
RECURSIVE ZigDeinitFrees(_, _)
ZigDeinitFrees(t, keys) ==
    IF keys = <<>> THEN <<>>
    ELSE <<t[Head(keys)].key>> \o t[Head(keys)].items
         \o ZigDeinitFrees(t, Tail(keys))

\* deinit: the key and every item of every entry are freed.  At an item
\* that was freed before, the program may end inside deinit.
ZigDeinit ==
    /\ phase = "zig"
    /\ zpc.pc = "built"
    /\ \E keys \in Orders(DOMAIN ztree) :
          LET frees == ZigDeinitFrees(ztree, keys)
          IN  \E stop \in ZigStops(zheap, frees) :
                 /\ zheap' = ZigFreeUpTo(zheap, frees, stop)
                 /\ ztree' = IF stop # 0 THEN ztree ELSE <<>>
                 /\ zpc' = [zpc EXCEPT !.pc = IF stop # 0 THEN "crashed"
                                              ELSE "freed"]
    /\ UNCHANGED <<phase, input, words, tree, arrays, frames, bufs>>

NextZig ==
    \/ ZigBuildStart
    \/ ZigBuildVisit
    \/ ZigBuildEnd
    \/ ZigSearches
    \/ ZigLimitedSearches
    \/ ZigGetAllPrefixes
    \/ ZigPrintTree
    \/ ZigFreeResults
    \/ ZigDeinit

SpecZig == InitZig /\ [][NextZig]_vars

(***************************************************************************)
(* Vocabulary of the properties.                                           *)
(***************************************************************************)
\* Caller c holds the value a call of op returned and has not written to it.
Returned(c, op) ==
    frames[c].pc = "done" /\ frames[c].op = op /\ ~frames[c].touched

\* The elements of the slice caller c was returned.
Result(c) == Elems(frames[c].ret)

\* What Search(query) returns in the current state: the elements of the
\* entry stored under the lower-cased query, none when there is no entry.
SearchElems(query) ==
    IF SearchKey(query) \in DOMAIN tree THEN Entry(SearchKey(query)) ELSE <<>>

\* No string occurs twice in seq.
NoRepeat(seq) == \A i, j \in 1..Len(seq) : seq[i] = seq[j] => i = j

\* seq is in ascending order of Go's string comparison.
IsAscending(seq) == \A i, j \in 1..Len(seq) : i < j => ~StrLess(seq[j], seq[i])

\* The first n elements of seq, all of it when it is shorter.
FirstN(seq, n) == SubSeq(seq, 1, IF Len(seq) <= n THEN Len(seq) ELSE n)

(***************************************************************************)
(* C1. Completeness: for every word w of the list and every prefix length  *)
(* k in 1..len(w), Search(lower(w[0:k])) contains w.  The lengths and the  *)
(* slices are those of build: bytes.                                       *)
(***************************************************************************)
C1_Completeness ==
    \A c \in DOMAIN frames :
        Returned(c, "Search") =>
            \A i \in 1..Len(input) : \A k \in 1..Len(input[i]) :
                frames[c].q = ToLower(Slice(input[i], k))
                    => input[i] \in Range(Result(c))

(***************************************************************************)
(* C2. Soundness: every word Search(q) returns is a word of the input, in  *)
(* its original case, whose lower-cased form starts with lower(q); the     *)
(* value returned is a slice, never nil, and it is empty when no input     *)
(* word starts with lower(q).                                              *)
(***************************************************************************)
C2_Soundness ==
    \A c \in DOMAIN frames :
        Returned(c, "Search") =>
            /\ \A w \in Range(Result(c)) :
                  /\ w \in Range(input)
                  /\ HasPrefix(ToLower(w), ToLower(frames[c].q))
            /\ frames[c].ret.base # "nil"
            /\ (\A w \in Range(input) :
                    ~HasPrefix(ToLower(w), ToLower(frames[c].q)))
                  => frames[c].ret.len = 0

\* Search has returned some words of a list that also holds words that do
\* not start with the query, and (for another query) has returned none.
C2_Witness ==
    \E c \in DOMAIN frames :
        /\ Returned(c, "Search")
        /\ Result(c) # <<>>
        /\ \E w \in Range(input) :
              w # <<>> /\ ~HasPrefix(ToLower(w), ToLower(frames[c].q))
        /\ frames[c].q # ToLower(frames[c].q)

(***************************************************************************)
(* C3. Dedup: once built, no stored entry holds the same string twice,     *)
(* whether the key was visited once or merged into later, and so no        *)
(* result of Search does.                                                  *)
(***************************************************************************)
C3_Dedup ==
    phase = "built" =>
        /\ \A k \in DOMAIN tree : NoRepeat(Entry(k))
        /\ \A c \in DOMAIN frames : Returned(c, "Search") => NoRepeat(Result(c))

\* A word was given twice, next to another word under the same key (a key
\* visited three times), and Search has returned the entry of that key:
\* the two distinct words.
C3_Witness ==
    /\ phase = "built"
    /\ \E i, j \in 1..Len(input) :
          /\ i < j /\ input[i] = input[j]
          /\ \E c \in DOMAIN frames :
                /\ Returned(c, "Search")
                /\ input[i] \in Range(Result(c))
                /\ Len(Result(c)) = 2

(***************************************************************************)
(* C4. Entry order: once built, every stored entry, and so every result of *)
(* Search, is in ascending order of the original strings.                  *)
(***************************************************************************)
C4_EntryOrder ==
    phase = "built" =>
        /\ \A k \in DOMAIN tree : IsAscending(Entry(k))
        /\ \A c \in DOMAIN frames :
              Returned(c, "Search") => IsAscending(Result(c))

\* The list was given in descending order, its three words share a key (so
\* the key was merged into twice), and Search has returned the three in
\* ascending order.
C4_Witness ==
    /\ phase = "built"
    /\ Len(input) >= 3
    /\ StrLess(input[2], input[1]) /\ StrLess(input[3], input[2])
    /\ \E c \in DOMAIN frames :
          /\ Returned(c, "Search")
          /\ Result(c) = <<input[3], input[2], input[1]>>

(***************************************************************************)
(* C5. Determinism: two lists with the same set of words, in any order and *)
(* with any repeats, build the same keys with the same entry under each.   *)
(* Checked when NewStaticSearchTree has just returned: the map built from  *)
(* the list given is compared with what build makes of every other list of *)
(* at most MaxWords words over the same set.                               *)
(***************************************************************************)
SameWordSet(list) ==
    { other \in UNION { [1..m -> Range(list)] : m \in 0..MaxWords } :
        Range(other) = Range(list) }

\* C5: every list over the same word set builds the map this list built.
C5_Determinism ==
    (phase = "built" /\ \A c \in DOMAIN frames : frames[c].pc = "idle") =>
        \A other \in SameWordSet(input) :
            /\ DOMAIN build(other) = DOMAIN tree
            /\ \A k \in DOMAIN tree : build(other)[k] = Entry(k)

\* Built from a list that is not in ascending order and repeats a word,
\* with a key that two distinct words share.
C5_Witness ==
    /\ phase = "built"
    /\ \A c \in DOMAIN frames : frames[c].pc = "idle"
    /\ Len(input) = 3
    /\ input[1] = input[3]
    /\ StrLess(input[2], input[1])
    /\ \E k \in DOMAIN tree : Len(Entry(k)) = 2
    /\ Cardinality(SameWordSet(input)) > 1

(***************************************************************************)
(* C6. Empty-query policy: the empty string is never a key, also when the  *)
(* list holds the empty string as a word, and Search("") returns an empty  *)
(* slice.                                                                  *)
(***************************************************************************)
C6_EmptyQuery ==
    /\ <<>> \notin DOMAIN tree
    /\ \A c \in DOMAIN frames :
          (Returned(c, "Search") /\ frames[c].q = <<>>) =>
              frames[c].ret.len = 0 /\ frames[c].ret.base # "nil"

\* Search("") has returned on a map built from a list that holds the empty
\* string and a word that has prefixes.
C6_Witness ==
    /\ phase = "built"
    /\ <<>> \in Range(input)
    /\ DOMAIN tree # {}
    /\ \E c \in DOMAIN frames : Returned(c, "Search") /\ frames[c].q = <<>>

(***************************************************************************)
(* C7. Case-insensitivity: Search(q), Search(toUpper(q)) and               *)
(* Search(toLower(q)) return the same words, in the casing of the input.   *)
(***************************************************************************)
C7_CaseInsensitive ==
    \A c \in DOMAIN frames :
        Returned(c, "Search") =>
            /\ Result(c) = SearchElems(ToUpper(frames[c].q))
            /\ Result(c) = SearchElems(ToLower(frames[c].q))
            /\ Range(Result(c)) \subseteq Range(input)

(***************************************************************************)
(* C8. Limit truncation: SearchWithLimit(q, L) is the first                *)
(* min(L, len(Search(q))) elements of Search(q), in order: nothing for     *)
(* L = 0, everything for L at or above the number of matches.              *)
(***************************************************************************)
C8_LimitTruncation ==
    \A c \in DOMAIN frames :
        Returned(c, "SearchWithLimit") =>
            /\ Result(c) = FirstN(SearchElems(frames[c].q), frames[c].limit)
            /\ frames[c].ret.base # "nil"

\* SearchWithLimit has cut three matches down to two.
C8_Witness ==
    \E c \in DOMAIN frames :
        /\ Returned(c, "SearchWithLimit")
        /\ frames[c].limit = 2
        /\ Len(SearchElems(frames[c].q)) = 3
        /\ Len(Result(c)) = 2

(***************************************************************************)
(* C9. Copy independence: a caller that overwrites an element of a slice   *)
(* Search or SearchWithLimit returned changes no stored entry, no slice    *)
(* returned by an earlier call, and no result of a later call: every entry *)
(* stays what build made of the list, and every returned slice its holder  *)
(* has not written to shows what the call returned.                        *)
(***************************************************************************)
C9_CopyIndependence ==
    phase = "built" =>
        /\ LET t == build(input)
           IN  /\ DOMAIN tree = DOMAIN t
               /\ \A k \in DOMAIN tree : Entry(k) = t[k]
        /\ \A c \in DOMAIN frames :
              /\ Returned(c, "Search") =>
                    Result(c) = SearchElems(frames[c].q)
              /\ Returned(c, "SearchWithLimit") =>
                    Result(c) = FirstN(SearchElems(frames[c].q),
                                       frames[c].limit)

\* One caller has overwritten an element of the slice Search returned to
\* it, and another caller holds the slice a Search with the same query
\* returned.
C9_Witness ==
    \E c1, c2 \in DOMAIN frames :
        /\ c1 # c2
        /\ frames[c1].pc = "done" /\ frames[c1].op = "Search"
        /\ frames[c1].touched
        /\ Modified \in Range(Elems(frames[c1].ret))
        /\ Returned(c2, "Search")
        /\ frames[c2].q = frames[c1].q
        /\ Len(Result(c2)) = 2

(***************************************************************************)
(* C10. Read-only queries: once build has returned no step of Search,      *)
(* SearchWithLimit, GetAllPrefixes or Size, however the calls of several   *)
(* callers interleave, changes the keys or an entry, and every call        *)
(* returns what it returns when it runs alone on the map build made.       *)
(***************************************************************************)
C10_NoWrite ==
    phase = "built" =>
        /\ tree' = tree
        /\ \A k \in DOMAIN tree : Entry(k)' = Entry(k)

C10_SameAsAlone ==
    LET t == build(input)
        alone(q) == IF SearchKey(q) \in DOMAIN t THEN t[SearchKey(q)]
                    ELSE <<>>
    IN  \A c \in DOMAIN frames :
            /\ Returned(c, "Search") => Result(c) = alone(frames[c].q)
            /\ Returned(c, "SearchWithLimit") =>
                  Result(c) = FirstN(alone(frames[c].q), frames[c].limit)
            /\ Returned(c, "GetAllPrefixes") =>
                  Result(c) = Ascending(DOMAIN t)
            /\ Returned(c, "Size") => frames[c].n = Cardinality(DOMAIN t)

\* C10: after build no step writes to the index, and every call returns
\* what it returns alone.
C10_ReadOnly == [][C10_NoWrite]_vars /\ []C10_SameAsAlone

\* Two callers are inside a call at the same time on a map that holds keys:
\* one between the lookup and the return of a Search that found no entry,
\* the other between the range and the sort of GetAllPrefixes.
C10_Witness ==
    /\ phase = "built"
    /\ DOMAIN tree # {}
    /\ \E c1, c2 \in DOMAIN frames :
          /\ c1 # c2
          /\ frames[c1].pc = "lookup" /\ ~frames[c1].exists
          /\ frames[c2].pc = "ranged"

(***************************************************************************)
(* C11. Size: Size() is the number of distinct lower-cased non-empty       *)
(* prefixes of the input words (prefixes as build cuts them, word[:k] for  *)
(* k in 1..len(word)): a list of one word of length n gives n (n as Go's   *)
(* len counts it, in bytes), prefixes that words share and repeated words  *)
(* count once, the empty list gives 0.  It is not the number of words.     *)
(***************************************************************************)
\* The lower-cased non-empty prefixes of the words of list.
LowerPrefixes(list) ==
    UNION { { ToLower(Slice(list[i], k)) : k \in 1..Len(list[i]) } :
              i \in 1..Len(list) }

C11_Size ==
    \A c \in DOMAIN frames :
        Returned(c, "Size") =>
            /\ frames[c].n = Cardinality(LowerPrefixes(input))
            /\ (Len(input) = 1 => frames[c].n = Len(input[1]))
            /\ (input = <<>> => frames[c].n = 0)

(***************************************************************************)
(* C12. GetAllPrefixes: the result holds every stored key exactly once in  *)
(* ascending order, it is the sorted set of the lower-cased prefixes of    *)
(* the input words, its length is what Size() returns, and it is a         *)
(* sequence of its own: it shares no array with the index, and after the   *)
(* caller has written to it the keys and the entries are still what build  *)
(* made of the list.                                                       *)
(***************************************************************************)
C12_GetAllPrefixes ==
    \A c \in DOMAIN frames :
        /\ Returned(c, "GetAllPrefixes") =>
              /\ Range(Result(c)) = DOMAIN tree
              /\ NoRepeat(Result(c))
              /\ IsAscending(Result(c))
              /\ Result(c) = Ascending(LowerPrefixes(input))
              /\ Len(Result(c)) = Cardinality(DOMAIN tree)
        /\ (frames[c].pc = "done" /\ frames[c].op = "GetAllPrefixes") =>
              /\ frames[c].ret.base # "tree"
              /\ LET t == build(input)
                 IN  /\ DOMAIN tree = DOMAIN t
                     /\ \A k \in DOMAIN tree : Entry(k) = t[k]

\* The caller has overwritten an element of the slice GetAllPrefixes
\* returned for an index of at least three keys, built from a list whose
\* words share a key.
C12_Witness ==
    \E c \in DOMAIN frames :
        /\ frames[c].pc = "done" /\ frames[c].op = "GetAllPrefixes"
        /\ frames[c].touched
        /\ Modified \in Range(Elems(frames[c].ret))
        /\ Cardinality(DOMAIN tree) >= 3
        /\ \E k \in DOMAIN tree : Len(Entry(k)) >= 2

(***************************************************************************)
(* C13. Scenario 1 as stated: for the input ["apple", "app",               *)
(* "application"], Search("app") returns exactly the words app, apple and  *)
(* application, and Size() is 5.                                           *)
(***************************************************************************)
C13_Scenario1 ==
    input = Scenario1Words =>
        \A c \in DOMAIN frames :
            /\ (Returned(c, "Search") /\ frames[c].q = Q_app) =>
                  /\ Range(Result(c)) = {W_app, W_apple, W_application}
                  /\ Len(Result(c)) = 3
            /\ Returned(c, "Size") => frames[c].n = 5

(***************************************************************************)
(* C13, amended: for the input ["apple", "app", "application"],            *)
(* Search("app") returns exactly the words app, apple and application,     *)
(* and Size() is 12 (the 11 prefixes of "application" and "apple").        *)
(***************************************************************************)
C13_Scenario1Size12 ==
    input = Scenario1Words =>
        \A c \in DOMAIN frames :
            /\ (Returned(c, "Search") /\ frames[c].q = Q_app) =>
                  /\ Range(Result(c)) = {W_app, W_apple, W_application}
                  /\ Len(Result(c)) = 3
            /\ Returned(c, "Size") => frames[c].n = 12

\* Size has returned on the index built from the three words, an index in
\* which the entry of "app" holds three words.
C13_Witness ==
    /\ input = Scenario1Words
    /\ \E c \in DOMAIN frames : Returned(c, "Size") /\ frames[c].n = 12
    /\ Len(SearchElems(Q_app)) = 3

(***************************************************************************)
(* C14. The example output of the README as stated: for the 19 words of    *)
(* main the tree has 64 prefixes, Search("app") returns [apple application *)
(* apply apricot], Search("ban") returns [banana band bandana bank],       *)
(* Search("car") returns [car card care careful] and Search("el") returns  *)
(* [elephant eleven elevator].                                             *)
(***************************************************************************)
C14_ReadmeOutput ==
    input = DemoWords =>
        \A c \in DOMAIN frames :
            /\ Returned(c, "Size") => frames[c].n = 64
            /\ Returned(c, "Search") =>
                  /\ frames[c].q = Q_app =>
                        Result(c) = <<W_apple, W_application, W_apply,
                                      W_apricot>>
                  /\ frames[c].q = Q_ban =>
                        Result(c) = <<W_banana, W_band, W_bandana, W_bank>>
                  /\ frames[c].q = Q_car =>
                        Result(c) = <<W_car, W_card, W_care, W_careful>>
                  /\ frames[c].q = Q_el =>
                        Result(c) = <<W_elephant, W_eleven, W_elevator>>

(***************************************************************************)
(* C14, amended: for the 19 words of main the tree has 62 prefixes,        *)
(* Search("app") returns [apple application apply], Search("ban") returns  *)
(* [banana band bandana bank], Search("car") returns [car card care        *)
(* careful] and Search("el") returns [elephant elevator eleven].           *)
(***************************************************************************)
C14_DemoOutput ==
    input = DemoWords =>
        \A c \in DOMAIN frames :
            /\ Returned(c, "Size") => frames[c].n = 62
            /\ Returned(c, "Search") =>
                  /\ frames[c].q = Q_app =>
                        Result(c) = <<W_apple, W_application, W_apply>>
                  /\ frames[c].q = Q_ban =>
                        Result(c) = <<W_banana, W_band, W_bandana, W_bank>>
                  /\ frames[c].q = Q_car =>
                        Result(c) = <<W_car, W_card, W_care, W_careful>>
                  /\ frames[c].q = Q_el =>
                        Result(c) = <<W_elephant, W_elevator, W_eleven>>

\* Search("el") has returned on the index built from the 19 words of main,
\* an index of 62 keys in which "apricot" is stored under "ap" and not
\* under "app".
C14_Witness ==
    /\ input = DemoWords
    /\ \E c \in DOMAIN frames :
          /\ Returned(c, "Search")
          /\ frames[c].q = Q_el
          /\ Len(Result(c)) = 3
    /\ Cardinality(DOMAIN tree) = 62
    /\ W_apricot \in Range(SearchElems(<<97, 112>>))
    /\ W_apricot \notin Range(SearchElems(Q_app))

(***************************************************************************)
(* C15. Merge algebra as stated: for all word sequences a and b,           *)
(* mergeDeduplicate(a, b) and mergeDeduplicate(b, a) give the same entry,  *)
(* mergeDeduplicate(mergeDeduplicate(a, b), b) equals mergeDeduplicate(a,  *)
(* b), and the result holds each word of a or b exactly once, also when a  *)
(* or b hold repeats.                                                      *)
(***************************************************************************)
C15_MergeAlgebra ==
    phase = "merge" =>
        /\ (Returned(1, "mergeDeduplicate") /\ Returned(2, "mergeDeduplicate"))
              => Result(1) = Result(2)
        /\ (Returned(1, "mergeDeduplicate") /\ Returned(3, "mergeDeduplicate"))
              => Result(3) = Result(1)
        /\ Returned(1, "mergeDeduplicate") =>
              /\ Range(Result(1)) = Range(arrays[1]) \cup Range(arrays[2])
              /\ NoRepeat(Result(1))

(***************************************************************************)
(* C15, amended: for all word sequences a and b, mergeDeduplicate(a, b)    *)
(* and mergeDeduplicate(b, a) hold the same words, each once, in the order *)
(* of first occurrence (a's words first for the one, b's first for the     *)
(* other), mergeDeduplicate(mergeDeduplicate(a, b), b) equals              *)
(* mergeDeduplicate(a, b), and the result holds each word of a or b        *)
(* exactly once, also when a or b hold repeats.                            *)
(***************************************************************************)
C15_MergeUnion ==
    phase = "merge" =>
        /\ (Returned(1, "mergeDeduplicate") /\ Returned(2, "mergeDeduplicate"))
              => /\ Range(Result(1)) = Range(Result(2))
                 /\ Len(Result(1)) = Len(Result(2))
        /\ (Returned(1, "mergeDeduplicate") /\ Returned(3, "mergeDeduplicate"))
              => Result(3) = Result(1)
        /\ \A c \in {1, 2} :
              Returned(c, "mergeDeduplicate") =>
                  /\ Range(Result(c)) = Range(arrays[1]) \cup Range(arrays[2])
                  /\ NoRepeat(Result(c))
                  /\ ~\E i, j \in 1..Len(Result(c)) :
                        /\ i < j
                        /\ Result(c)[i] \notin Range(arrays[c])
                        /\ Result(c)[j] \in Range(arrays[c])

\* The three calls have returned for an a that repeats a word and a b that
\* shares a word with a and adds one: the two orders of the arguments gave
\* the same words in different orders.
C15_Witness ==
    /\ phase = "merge"
    /\ \A c \in 1..3 : Returned(c, "mergeDeduplicate")
    /\ ~NoRepeat(arrays[1])
    /\ Range(arrays[1]) \cap Range(arrays[2]) # {}
    /\ Range(arrays[2]) \ Range(arrays[1]) # {}
    /\ Result(1) # Result(2)

(***************************************************************************)
(* C16. Case variants: when the list holds two words that differ only in   *)
(* letter case, both produce the same lower-cased keys, and the entry of   *)
(* every prefix they share holds both original-case strings, as two        *)
(* distinct values.                                                        *)
(***************************************************************************)
C16_CaseVariants ==
    phase = "built" =>
        \A i, j \in 1..Len(input) :
            (input[i] # input[j] /\ ToLower(input[i]) = ToLower(input[j])) =>
                /\ LowerPrefixes(<<input[i]>>) = LowerPrefixes(<<input[j]>>)
                /\ \A k \in LowerPrefixes(<<input[i]>>) :
                      /\ k \in DOMAIN tree
                      /\ input[i] \in Range(Entry(k))
                      /\ input[j] \in Range(Entry(k))
                      /\ NoRepeat(Entry(k))

(***************************************************************************)
(* C17. Zig memory discipline: from build to deinit every key and every    *)
(* string held in an entry of the index is live memory, and once deinit    *)
(* has run every allocation made was freed exactly once: nothing leaked,   *)
(* nothing freed twice, also when several words share a prefix.            *)
(***************************************************************************)
C17_ZigMemory ==
    /\ zpc.pc \in {"build", "built", "returned"} =>
          \A k \in DOMAIN ztree :
              /\ zheap[ztree[k].key].frees = 0
              /\ \A j \in 1..Len(ztree[k].items) :
                    zheap[ztree[k].items[j]].frees = 0
    /\ zpc.pc = "freed" =>
          \A id \in DOMAIN zheap : zheap[id].frees = 1

(***************************************************************************)
(* C18. Effect of build on its argument: once NewStaticSearchTree has      *)
(* returned, the caller's slice holds the words it was given, each as      *)
(* often as it was given, in ascending order, whatever order they were     *)
(* given in; no element is added, removed or changed, by build or by a     *)
(* later query.  Before the call the slice is as the caller wrote it.      *)
(***************************************************************************)
\* How often x occurs in seq.
Count(seq, x) == Cardinality({ i \in 1..Len(seq) : seq[i] = x })

C18_SortsArgument ==
    /\ phase = "new" => words = input
    /\ phase = "built" =>
          /\ Len(words) = Len(input)
          /\ \A x \in Range(input) \cup Range(words) :
                Count(words, x) = Count(input, x)
          /\ IsAscending(words)

\* Built from a list that was given in descending order and repeats a
\* word: the caller's slice is no longer in the order it was given.
C18_Witness ==
    /\ phase = "built"
    /\ Len(input) = 3
    /\ input[1] = input[2]
    /\ StrLess(input[3], input[2])
    /\ words # input
    /\ words[1] = input[3]

(***************************************************************************)
(* C19. Negative limit: a call of SearchWithLimit with a negative limit    *)
(* returns no result, whatever the query and whether or not it has         *)
(* matches: the number of matches is never <= the limit, matches[:limit]   *)
(* is evaluated and the call ends in a run-time panic.  The index is left  *)
(* as build made it.                                                       *)
(***************************************************************************)
C19_NegativeLimit ==
    \A c \in DOMAIN frames :
        (/\ frames[c].op = "SearchWithLimit"
         /\ frames[c].limit < 0
         /\ frames[c].pc # "lookup") =>
            /\ frames[c].pc = "panicked"
            /\ frames[c].ret = NilSlice
            /\ LET t == build(input)
               IN  /\ DOMAIN tree = DOMAIN t
                   /\ \A k \in DOMAIN tree : Entry(k) = t[k]

\* A call with a negative limit has panicked for a query that has two
\* matches.
C19_Witness ==
    \E c \in DOMAIN frames :
        /\ frames[c].pc = "panicked"
        /\ frames[c].limit < 0
        /\ frames[c].exists
        /\ Len(SearchElems(frames[c].q)) = 2

=============================================================================
